---- MODULE Spec2Model ----
(***************************************************************************)
(* World loading of rs-tiled (src/world.rs): parse_world and               *)
(* parse_world_pattern, with the error values of src/error.rs.             *)
(*                                                                         *)
(* Machine integers keep their Rust width.  The model checker's own        *)
(* integers are 32 bit wide, so every value that can leave the i32 range   *)
(* (a u32 multiplier, the exact product capture * multiplier) is held as   *)
(* an exact integer Z = [neg, mag], mag being the little-endian digits in  *)
(* base 10000 without leading zero digits.                                 *)
(***************************************************************************)
EXTENDS Integers, Sequences, FiniteSets, TLC

(***************************************************************************)
(* Option<T>: None is the empty sequence, Some(v) the singleton.           *)
(***************************************************************************)
None == <<>>
Some(v) == <<v>>
IsSome(o) == o # <<>>
Unwrap(o) == o[1]

(***************************************************************************)
(* Exact integers.                                                         *)
(***************************************************************************)
Rest(s) == IF s = <<>> THEN <<>> ELSE Tail(s)
First(s) == IF s = <<>> THEN 0 ELSE Head(s)

RECURSIVE MagNorm(_)
MagNorm(m) ==
    IF m = <<>> THEN <<>>
    ELSE IF m[Len(m)] = 0 THEN MagNorm(SubSeq(m, 1, Len(m) - 1))
    ELSE m

RECURSIVE MagAddC(_, _, _)
MagAddC(a, b, c) ==
    IF a = <<>> /\ b = <<>>
    THEN IF c = 0 THEN <<>> ELSE <<c>>
    ELSE LET s == First(a) + First(b) + c
         IN  <<s % 10000>> \o MagAddC(Rest(a), Rest(b), s \div 10000)

MagAdd(a, b) == MagAddC(a, b, 0)

\* a - b - w for a >= b + w.
RECURSIVE MagSubB(_, _, _)
MagSubB(a, b, w) ==
    IF a = <<>> THEN <<>>
    ELSE LET d == First(a) - First(b) - w
         IN  IF d < 0
             THEN <<d + 10000>> \o MagSubB(Rest(a), Rest(b), 1)
             ELSE <<d>> \o MagSubB(Rest(a), Rest(b), 0)

MagSub(a, b) == MagNorm(MagSubB(a, b, 0))

\* -1, 0, 1 as a < b, a = b, a > b (both normalised).
RECURSIVE MagCmp(_, _)
MagCmp(a, b) ==
    IF Len(a) < Len(b) THEN -1
    ELSE IF Len(a) > Len(b) THEN 1
    ELSE IF a = <<>> THEN 0
    ELSE IF a[Len(a)] < b[Len(b)] THEN -1
    ELSE IF a[Len(a)] > b[Len(b)] THEN 1
    ELSE MagCmp(SubSeq(a, 1, Len(a) - 1), SubSeq(b, 1, Len(b) - 1))

RECURSIVE MagMulSmall(_, _, _)
MagMulSmall(a, d, c) ==
    IF a = <<>>
    THEN IF c = 0 THEN <<>> ELSE <<c>>
    ELSE LET s == Head(a) * d + c
         IN  <<s % 10000>> \o MagMulSmall(Tail(a), d, s \div 10000)

RECURSIVE MagMul(_, _)
MagMul(a, b) ==
    IF a = <<>> \/ b = <<>> THEN <<>>
    ELSE MagNorm(MagAdd(MagMulSmall(a, Head(b), 0), <<0>> \o MagMul(a, Tail(b))))

RECURSIVE MagOfNat(_)
MagOfNat(n) == IF n = 0 THEN <<>> ELSE <<n % 10000>> \o MagOfNat(n \div 10000)

Z(neg, mag) == [neg |-> neg /\ mag # <<>>, mag |-> mag]

\* The exact integer of a 32-bit value n (n + 1 is negated, never n itself,
\* so that the least i32 converts too).
ZOfInt(n) ==
    IF n >= 0 THEN Z(FALSE, MagOfNat(n))
    ELSE Z(TRUE, MagAdd(MagOfNat(-(n + 1)), <<1>>))

ZAdd(p, q) ==
    IF p.neg = q.neg THEN Z(p.neg, MagAdd(p.mag, q.mag))
    ELSE IF MagCmp(p.mag, q.mag) >= 0 THEN Z(p.neg, MagSub(p.mag, q.mag))
    ELSE Z(q.neg, MagSub(q.mag, p.mag))

ZNeg(p) == Z(~p.neg, p.mag)
ZSub(p, q) == ZAdd(p, ZNeg(q))
ZMul(p, q) == Z(p.neg # q.neg, MagMul(p.mag, q.mag))

ZLe(p, q) ==
    IF p.neg /\ ~q.neg THEN TRUE
    ELSE IF ~p.neg /\ q.neg THEN FALSE
    ELSE IF p.neg THEN MagCmp(p.mag, q.mag) >= 0
    ELSE MagCmp(p.mag, q.mag) <= 0

\* The 32-bit value of an exact integer inside the i32 range (accumulated with
\* the sign applied, so that the least i32 converts too).
RECURSIVE IntOfMag(_, _)
IntOfMag(m, sign) ==
    IF m = <<>> THEN 0
    ELSE sign * Head(m) + 10000 * IntOfMag(Tail(m), sign)

IntOfZ(p) == IntOfMag(p.mag, IF p.neg THEN -1 ELSE 1)

(***************************************************************************)
(* Machine integers: i32 (x, y, offsets, captures) and u32 (multipliers,   *)
(* width, height).  An i32 is a 32-bit value; a u32 is an exact integer.   *)
(***************************************************************************)
I32_MAX == 2147483647
I32_MIN == -I32_MAX - 1
U32_MAX == ZAdd(ZMul(ZOfInt(2), ZOfInt(I32_MAX)), ZOfInt(1))
TwoPow32 == ZAdd(U32_MAX, ZOfInt(1))

InI32(z) == ZLe(ZOfInt(I32_MIN), z) /\ ZLe(z, ZOfInt(I32_MAX))

\* `u as i32`: the two's complement reinterpretation of the 32 bits of u.
WrapAsI32(u) ==
    IF InI32(u) THEN IntOfZ(u) ELSE IntOfZ(ZSub(u, TwoPow32))

\* i32::checked_mul, i32::checked_add: None on overflow.
checked_mul(a, b) ==
    LET p == ZMul(ZOfInt(a), ZOfInt(b))
    IN  IF InI32(p) THEN Some(IntOfZ(p)) ELSE None

checked_add(a, b) ==
    LET p == ZAdd(ZOfInt(a), ZOfInt(b))
    IN  IF InI32(p) THEN Some(IntOfZ(p)) ELSE None

(***************************************************************************)
(* str::parse::<i32> of a capture, the text being a sequence of            *)
(* characters: an optional sign, then one or more decimal digits, the      *)
(* value inside the i32 range.                                             *)
(***************************************************************************)
DigitChars == <<"0", "1", "2", "3", "4", "5", "6", "7", "8", "9">>
IsDigit(c) == \E i \in 1..10 : DigitChars[i] = c
DigitVal(c) == (CHOOSE i \in 1..10 : DigitChars[i] = c) - 1

RECURSIVE MagOfDigits(_, _)
MagOfDigits(ds, acc) ==
    IF ds = <<>> THEN acc
    ELSE MagOfDigits(Tail(ds), MagMulSmall(acc, 10, DigitVal(Head(ds))))

ParseOk(v) == [ok |-> TRUE, val |-> v]
ParseErr(k) == [ok |-> FALSE, kind |-> k]

ParseI32(text) ==
    IF text = <<>> THEN ParseErr("Empty")
    ELSE LET signed == Head(text) \in {"+", "-"}
             digits == IF signed THEN Tail(text) ELSE text
             value  == Z(Head(text) = "-", MagOfDigits(digits, <<>>))
         IN  IF digits = <<>> THEN ParseErr("InvalidDigit")
             ELSE IF \E i \in 1..Len(digits) : ~IsDigit(digits[i])
                  THEN ParseErr("InvalidDigit")
             ELSE IF ~InI32(value)
                  THEN ParseErr(IF value.neg THEN "NegOverflow" ELSE "PosOverflow")
             ELSE ParseOk(IntOfZ(value))

(***************************************************************************)
(* Bounds of the inputs.                                                   *)
(***************************************************************************)
MaxPatterns == 2
MaxEntries == 2
MaxMaps == 2

(***************************************************************************)
(* The regex crate on the regular expressions and file names of the        *)
(* model.  RX_BAD has an unclosed group: Regex::new rejects it.  RX_ONE    *)
(* has one capture group only.  Matching is unanchored.                    *)
(***************************************************************************)
RX_TMX == "map_([0-9]+)_([0-9]+)[.]tmx"
RX_ANY == "map_(.+)_(.+)[.]tmx"
RX_ONE == "map_([0-9]+)_"
RX_BAD == "map_("

\* Regex::new(re).is_ok()
RegexCompiles(re) == re # RX_BAD

N_23 == "map_2_3.tmx"
N_BIG == "map_3000000_1.tmx"
N_X == "map_x_1.tmx"
N_WORLD == "a.world"
N_RAW == "map_\\xFF.tmx"
N_CAVE == "cave.tmx"

\* OsStr::to_str(name).is_some(): N_RAW stands for a name holding the byte
\* 0xFF, which is no UTF-8.
IsUtf8(name) == name # N_RAW

C_2 == <<"2">>
C_3 == <<"3">>
C_1 == <<"1">>
C_BIG == <<"3", "0", "0", "0", "0", "0", "0">>
C_X == <<"x">>

\* Regex::captures(re, name): None when re does not match name, else the
\* text of groups 1 and 2, each None when re has no such group.
Captures(re, name) ==
    CASE re = RX_TMX /\ name = N_23  -> Some(<<Some(C_2), Some(C_3)>>)
      [] re = RX_TMX /\ name = N_BIG -> Some(<<Some(C_BIG), Some(C_1)>>)
      [] re = RX_ANY /\ name = N_23  -> Some(<<Some(C_2), Some(C_3)>>)
      [] re = RX_ANY /\ name = N_BIG -> Some(<<Some(C_BIG), Some(C_1)>>)
      [] re = RX_ANY /\ name = N_X   -> Some(<<Some(C_X), Some(C_1)>>)
      [] re = RX_ONE /\ name = N_23  -> Some(<<Some(C_2), None>>)
      [] re = RX_ONE /\ name = N_BIG -> Some(<<Some(C_BIG), None>>)
      [] OTHER -> None

\* Regex::is_match
is_match(re, name) == IsSome(Captures(re, name))

(***************************************************************************)
(* The data of src/world.rs.                                               *)
(***************************************************************************)
WorldPattern(re, mx, my, ox, oy) ==
    [regexp |-> re, multiplier_x |-> mx, multiplier_y |-> my,
     offset_x |-> ox, offset_y |-> oy]

WorldMap(name, map, x, y, w, h) ==
    [filename |-> name, map |-> map, x |-> x, y |-> y, width |-> w, height |-> h]

World(source, maps, patterns) ==
    [source |-> source, maps |-> maps, patterns |-> patterns]

\* The patterns a world file of the model may declare.
PatternPool ==
    { WorldPattern(RX_TMX, ZOfInt(100), ZOfInt(100), 0, 0),
      WorldPattern(RX_ANY, ZOfInt(100000), U32_MAX, 0, 0),
      WorldPattern(RX_ONE, ZOfInt(1), ZOfInt(1), -5, 0),
      WorldPattern(RX_TMX, ZOfInt(1), ZOfInt(1), 0, I32_MAX - 1),
      WorldPattern(RX_BAD, ZOfInt(1), ZOfInt(1), 0, 0) }

\* The explicit map records a world file of the model may list, as
\* deserialized: `map` is skipped by serde and so None.
ExplicitPool ==
    << WorldMap(N_23, None, 0, 0, Some(ZOfInt(640)), Some(ZOfInt(480))),
       WorldMap(N_CAVE, None, 640, -480, None, None),
       WorldMap(N_X, None, -7, 9, Some(ZOfInt(16)), None) >>

SeqsUpTo(S, n) == UNION { [1..k -> S] : k \in 0..n }

PatternLists == SeqsUpTo(PatternPool, MaxPatterns)

MapLists == { SubSeq(ExplicitPool, 1, k) : k \in 0..MaxMaps }

\* What the world file holds: no JSON, or a descriptor with optional "maps"
\* and optional "patterns".
BadJson == [json |-> FALSE, maps |-> None, patterns |-> None]
Descriptor(maps, patterns) == [json |-> TRUE, maps |-> maps, patterns |-> patterns]
FileContents ==
    {BadJson} \cup
    { Descriptor(m, p) :
        m \in {None} \cup { Some(l) : l \in MapLists },
        p \in {None} \cup { Some(l) : l \in PatternLists } }

\* A directory entry as fs::read_dir yields it: an io::Error, or an entry
\* with a file name.
EntryErr == [io |-> FALSE, name |-> ""]
Entry(name) == [io |-> TRUE, name |-> name]
EntryPool == { Entry(n) : n \in {N_23, N_BIG, N_X, N_WORLD, N_RAW} } \cup {EntryErr}

\* The listings of the directory: entries in any order, no name twice.
Listings ==
    { l \in SeqsUpTo(EntryPool, MaxEntries) :
        \A i, j \in 1..Len(l) : l[i] = l[j] => i = j }

\* Paths are the sequences of their components.
WORLD_A == <<"worlds", "a.world">>
WORLD_ROOT == <<"/">>
WorldPaths == {WORLD_A, WORLD_ROOT}

\* Path::parent
Parent(path) == IF Len(path) > 1 THEN Some(SubSeq(path, 1, Len(path) - 1)) ELSE None

\* Path::with_file_name: the path with its last component replaced.
WithFileName(path, name) ==
    IF Len(path) > 1 THEN Append(SubSeq(path, 1, Len(path) - 1), name)
    ELSE Append(path, name)

(***************************************************************************)
(* Errors (src/error.rs) and outcomes.                                     *)
(***************************************************************************)
Error(kind, path, msg) == [kind |-> kind, path |-> path, msg |-> msg]
ResourceLoadingError(path, msg) == Error("ResourceLoadingError", path, msg)
JsonDecodingError == Error("JsonDecodingError", <<>>, <<>>)
CapturesNotFound == Error("CapturesNotFound", <<>>, <<>>)

Ok(v) == [kind |-> "Ok", val |-> v]
Err(e) == [kind |-> "Err", val |-> e]
Panic == [kind |-> "Panic", val |-> <<>>]
Pending == [kind |-> "Pending", val |-> <<>>]

(***************************************************************************)
(* parse_world_pattern, lines 123-225: the work on one pattern.            *)
(***************************************************************************)
\* Lines 172-175 and 196-198: the capture times the multiplier cast to i32,
\* plus the offset, both overflow-checked.
Placement(capture, multiplier, offset) ==
    LET product == checked_mul(capture, WrapAsI32(multiplier))
    IN  IF product = None THEN None ELSE checked_add(Unwrap(product), offset)

\* Lines 159-183 (x, group 1) and 184-207 (y, group 2).
Axis(path, name, group, axis, multiplier, offset) ==
    IF group = None
    THEN Err(ResourceLoadingError(path, <<"Failed to parse pattern from file", axis, name>>))
    ELSE LET parsed == ParseI32(Unwrap(group))
         IN  IF ~parsed.ok
             THEN Err(ResourceLoadingError(path, <<"ParseIntError", parsed.kind>>))
             ELSE LET placed == Placement(parsed.val, multiplier, offset)
                  IN  IF placed = None
                      THEN Err(ResourceLoadingError(path, <<"Arithmetic Overflow", axis>>))
                      ELSE Ok(Unwrap(placed))

PlacedMapNoSize(name, x, y, pattern) == WorldMap(name, None, x, y, None, None)

\* Lines 208-215.
PlacedMap(name, x, y, pattern) ==
    WorldMap(name, None, x, y, Some(pattern.multiplier_x), Some(pattern.multiplier_y))

\* The closure of lines 142-216 on one file name.
MapEntry(path, pattern, name) ==
    LET captures == Captures(pattern.regexp, name)
    IN  IF captures = None THEN Panic
        ELSE LET x == Axis(path, name, Unwrap(captures)[1], "x",
                           pattern.multiplier_x, pattern.offset_x)
                 y == Axis(path, name, Unwrap(captures)[2], "y",
                           pattern.multiplier_y, pattern.offset_y)
             IN  IF x.kind = "Err" THEN x
                 ELSE IF y.kind = "Err" THEN y
                 ELSE Ok(PlacedMap(name, x.val, y.val, pattern))

\* Line 140: the entries read_dir yields without error.
OkEntries(entries) == SelectSeq(entries, LAMBDA e : e.io)

PatternResultsReportUnmatched(path, pattern, entries) ==
    LET files == OkEntries(entries)
    IN  [i \in 1..Len(files) |->
            IF is_match(pattern.regexp, files[i].name)
            THEN MapEntry(path, pattern, files[i].name)
            ELSE Err(CapturesNotFound)]

\* Lines 139-217: one result for every entry whose name the regex matches,
\* in the order of the listing.
PatternResults(path, pattern, entries) ==
    LET files == SelectSeq(OkEntries(entries),
                           LAMBDA e : is_match(pattern.regexp, e.name))
    IN  [i \in 1..Len(files) |-> MapEntry(path, pattern, files[i].name)]

Vals(results) == [i \in 1..Len(results) |-> results[i].val]

CollectSkipErr(results) ==
    IF \E i \in 1..Len(results) : results[i].kind = "Panic" THEN Panic
    ELSE Ok(Vals(SelectSeq(results, LAMBDA r : r.kind = "Ok")))

\* Lines 219-221: the maps of the results; the first Err returns.  A panic
\* of the closure has ended the collect of line 217 before.
Collect(results) ==
    IF \E i \in 1..Len(results) : results[i].kind = "Panic" THEN Panic
    ELSE IF \E i \in 1..Len(results) : results[i].kind = "Err"
         THEN results[CHOOSE i \in 1..Len(results) :
                        /\ results[i].kind = "Err"
                        /\ \A j \in 1..(i - 1) : results[j].kind # "Err"]
    ELSE Ok(Vals(results))

\* Lines 138-221 for one pattern, the directory listed: Regex::new(..).unwrap()
\* (138), file_name().unwrap().to_str().unwrap() in the filter (141).
PatternOutcome(path, pattern, entries) ==
    IF ~RegexCompiles(pattern.regexp) THEN Panic
    ELSE IF \E i \in 1..Len(entries) : entries[i].io /\ ~IsUtf8(entries[i].name)
         THEN Panic
    ELSE Collect(PatternResults(path, pattern, entries))

PushReplace(maps, files) == files

\* Line 220: maps.push(file) for every file of the pattern.
Push(maps, files) == maps \o files

(***************************************************************************)
(* parse_map and the resource cache, the collaborators of lines 113-114:   *)
(* a map file names external tilesets; each is looked up in the cache by   *)
(* its canonical path, and read, parsed and inserted on a miss.            *)
(***************************************************************************)
TS_TILES == <<"worlds", "tiles.tsx">>
TS_DECO == <<"worlds", "deco.tsx">>
TilesetPaths == {TS_TILES, TS_DECO}

\* The external tilesets each map file of the model references, in order.
TilesetRefs(name) ==
    CASE name = N_23  -> <<TS_TILES>>
      [] name = N_BIG -> <<TS_TILES, TS_DECO>>
      [] name = N_X   -> <<TS_DECO, TS_TILES>>
      [] name = N_CAVE -> <<TS_DECO>>
      [] OTHER -> <<>>

\* The resource cache: the tileset object cached for each canonical path
\* (0: none).  Objects are numbered as they are made.
EmptyCache == [p \in TilesetPaths |-> 0]

\* A cache an earlier load has left TS_TILES in.
WarmCache == [p \in TilesetPaths |-> IF p = TS_TILES THEN 1 ELSE 0]

\* The number of times each tileset file was read to make the cache c.
ReadsOf(c) == [p \in TilesetPaths |-> IF c[p] = 0 THEN 0 ELSE 1]

\* Resolves the tilesets refs in order on st = [cache, reads, made]; `broken`
\* is the one file that cannot be read or parsed.
RECURSIVE ResolveTilesets(_, _, _, _)
ResolveTilesets(refs, st, handles, broken) ==
    IF refs = <<>> THEN [ok |-> TRUE, st |-> st, handles |-> handles]
    ELSE LET p == Head(refs)
         IN  IF st.cache[p] # 0
             THEN ResolveTilesets(Tail(refs), st, Append(handles, st.cache[p]), broken)
             ELSE LET read == [st EXCEPT !.reads[p] = @ + 1]
                  IN  IF p = broken
                      THEN [ok |-> FALSE, st |-> read, handles |-> handles]
                      ELSE ResolveTilesets(
                               Tail(refs),
                               [read EXCEPT !.cache[p] = st.made + 1, !.made = @ + 1],
                               Append(handles, st.made + 1), broken)

\* crate::parse::xml::parse_map(&map_path, reader, cache): the map, or the
\* error of the file that is broken; st = [cache, reads, made] as parse_map
\* leaves the cache, the files and the heap.
parse_map(map_path, st, broken) ==
    IF broken = map_path
    THEN [result |-> Err(ResourceLoadingError(map_path, <<"map">>)), st |-> st]
    ELSE LET r == ResolveTilesets(TilesetRefs(map_path[Len(map_path)]), st, <<>>, broken)
         IN  IF r.ok
             THEN [result |-> Ok([tilesets |-> r.handles]), st |-> r.st]
             ELSE [result |-> Err(ResourceLoadingError(broken, <<"tileset">>)),
                   st |-> r.st]

(***************************************************************************)
(* parse_world, lines 79-120.                                              *)
(***************************************************************************)
VARIABLES
    pc,          \* where parse_world stands
    world_path,  \* argument
    load_maps,   \* argument
    cache,       \* argument: the resource cache
    reads,       \* how often each tileset file has been read
    made,        \* how many tileset objects have been made
    file,        \* what reader.read_from(world_path) has read
    dir,         \* what fs::read_dir(parent_dir) lists
    world,       \* the local `world` of parse_world
    maps,        \* the local `maps` of parse_world_pattern
    pi,          \* the pattern the loop of line 132 stands at
    mi,          \* the map the loop of line 112 stands at
    active,      \* the maps parse_map is at work on
    map_err,     \* the error a parse_map call has returned
    ret          \* what parse_world has returned

vars == <<pc, world_path, load_maps, cache, reads, made, file, dir, world, maps,
          pi, mi, active, map_err, ret>>

Init ==
    /\ pc = "read"
    /\ world_path \in WorldPaths
    /\ load_maps \in BOOLEAN
    /\ cache \in {EmptyCache, WarmCache}
    /\ reads = ReadsOf(cache)
    /\ made = Cardinality({p \in TilesetPaths : cache[p] # 0})
    /\ file = None
    /\ dir = None
    /\ world = None
    /\ maps = <<>>
    /\ pi = 1
    /\ mi = 1
    /\ active = {}
    /\ map_err = None
    /\ ret = Pending

Return(r) ==
    /\ ret' = r
    /\ pc' = "done"

\* Lines 85-94: the reader fails.
ReadFails ==
    /\ pc = "read"
    /\ Return(Err(ResourceLoadingError(world_path, <<"io">>)))
    /\ UNCHANGED <<world_path, load_maps, cache, reads, made, file, dir, world, maps, pi, mi,
                   active, map_err>>

\* Lines 85-94: the world file is read.
ReadWorld ==
    /\ pc = "read"
    /\ \E c \in FileContents : file' = Some(c)
    /\ pc' = "decode"
    /\ UNCHANGED <<world_path, load_maps, cache, reads, made, dir, world, maps, pi, mi,
                   active, map_err, ret>>

DeserializeNoMaps(c) == World(<<>>, None, c.patterns)

\* serde_json::from_str, line 96: `source` is skipped and so the default path.
Deserialize(c) == World(<<>>, c.maps, c.patterns)

\* Lines 96-103, and lines 124-129 when the world has patterns.
DecodeJson ==
    /\ pc = "decode"
    /\ LET c == Unwrap(file)
       IN  IF ~c.json
           THEN Return(Err(JsonDecodingError)) /\ UNCHANGED <<world, maps, pi>>
           ELSE /\ world' = Some(Deserialize(c))
                /\ IF c.patterns = None
                   THEN pc' = "load" /\ UNCHANGED <<maps, pi, ret>>
                   ELSE IF Parent(world_path) = None
                        THEN /\ Return(Err(ResourceLoadingError(world_path, <<"NotFound">>)))
                             /\ UNCHANGED <<maps, pi>>
                        ELSE /\ pc' = "patterns"
                             /\ maps' = <<>>
                             /\ pi' = 1
                             /\ UNCHANGED ret
    /\ UNCHANGED <<world_path, load_maps, cache, reads, made, file, dir, mi, active, map_err>>

\* Lines 133-136: fs::read_dir fails.
ReadDirFails ==
    /\ pc = "patterns"
    /\ pi <= Len(Unwrap(Unwrap(world).patterns))
    /\ Return(Err(ResourceLoadingError(Unwrap(Parent(world_path)), <<"io">>)))
    /\ UNCHANGED <<world_path, load_maps, cache, reads, made, file, dir, world, maps, pi, mi,
                   active, map_err>>

\* Lines 132-222: one pattern of the loop, the directory listed.  The first
\* read_dir finds the directory in any of its listings; the later ones find
\* it as the first did.
PatternStep ==
    /\ pc = "patterns"
    /\ pi <= Len(Unwrap(Unwrap(world).patterns))
    /\ \E l \in IF dir = None THEN Listings ELSE {Unwrap(dir)} :
          LET out == PatternOutcome(world_path, Unwrap(Unwrap(world).patterns)[pi], l)
          IN  /\ dir' = Some(l)
              /\ IF out.kind = "Ok"
                 THEN /\ maps' = Push(maps, out.val)
                      /\ pi' = pi + 1
                      /\ UNCHANGED <<pc, ret>>
                 ELSE Return(out) /\ UNCHANGED <<maps, pi>>
    /\ UNCHANGED <<world_path, load_maps, cache, reads, made, file, world, mi, active, map_err>>

\* Lines 224 and 104-107: parse_world_pattern returns, its maps are the
\* world's.
PatternsDone ==
    /\ pc = "patterns"
    /\ pi > Len(Unwrap(Unwrap(world).patterns))
    /\ world' = Some([Unwrap(world) EXCEPT !.maps = Some(maps)])
    /\ pc' = "load"
    /\ UNCHANGED <<world_path, load_maps, cache, reads, made, file, dir, maps, pi, mi,
                   active, map_err, ret>>

MoreToLoad ==
    /\ load_maps
    /\ Unwrap(world).maps # None
    /\ mi <= Len(Unwrap(Unwrap(world).maps))

\* Lines 112-114: parse_map is called on the next map.
BeginMap ==
    /\ pc = "load"
    /\ MoreToLoad
    /\ active' = active \cup {mi}
    /\ pc' = "parse_map"
    /\ UNCHANGED <<world_path, load_maps, cache, reads, made, file, dir, world, maps, pi, mi,
                   map_err, ret>>

FreshCache(c) == EmptyCache

\* Line 114: the cache parse_map is handed is the one parse_world was handed.
PassCache(c) == c

MapNotStored(m, parsed) == m

\* Line 114: map.map = Some(..)
MapLoaded(m, parsed) == [m EXCEPT !.map = Some(parsed)]

\* Line 114: parse_map returns; `?` returns its error.
EndMap ==
    /\ pc = "parse_map"
    /\ \E broken \in {<<>>} \cup TilesetPaths
                     \cup {WithFileName(world_path, Unwrap(Unwrap(world).maps)[mi].filename)} :
          LET m == Unwrap(Unwrap(world).maps)[mi]
              out == parse_map(WithFileName(world_path, m.filename),
                               [cache |-> PassCache(cache), reads |-> reads,
                                made |-> made], broken)
          IN  /\ cache' = out.st.cache
              /\ reads' = out.st.reads
              /\ made' = out.st.made
              /\ IF out.result.kind = "Ok"
                 THEN /\ world' = Some([Unwrap(world) EXCEPT
                                          !.maps = Some([Unwrap(@) EXCEPT
                                              ![mi] = MapLoaded(m, out.result.val)])])
                      /\ mi' = mi + 1
                      /\ pc' = "load"
                      /\ UNCHANGED <<map_err, ret>>
                 ELSE /\ map_err' = Some(out.result.val)
                      /\ Return(out.result)
                      /\ UNCHANGED <<world, mi>>
    /\ active' = active \ {mi}
    /\ UNCHANGED <<world_path, load_maps, file, dir, maps, pi>>

\* Line 119.
ReturnOk ==
    /\ pc = "load"
    /\ ~MoreToLoad
    /\ Return(Ok(Unwrap(world)))
    /\ UNCHANGED <<world_path, load_maps, cache, reads, made, file, dir, world, maps, pi, mi,
                   active, map_err>>

Next ==
    \/ ReadFails
    \/ ReadWorld
    \/ DecodeJson
    \/ ReadDirFails
    \/ PatternStep
    \/ PatternsDone
    \/ BeginMap
    \/ EndMap
    \/ ReturnOk

Spec == Init /\ [][Next]_vars

(***************************************************************************)
(* What the claims speak of.                                               *)
(***************************************************************************)
Done == pc = "done"
ReturnedOk == Done /\ ret.kind = "Ok"
ReturnedErr == Done /\ ret.kind = "Err"

\* The descriptor the world file held.
Desc == Unwrap(file)
HasPatterns == file # None /\ Desc.json /\ Desc.patterns # None
Pats == Unwrap(Desc.patterns)
Listing == IF dir = None THEN <<>> ELSE Unwrap(dir)

\* The maps of the world returned.
RetMaps == IF ret.val.maps = None THEN <<>> ELSE Unwrap(ret.val.maps)

\* The file names the directory lists.
Candidates == { Listing[i].name : i \in { j \in 1..Len(Listing) : Listing[j].io } }

\* The patterns, by position, whose regex matches a file name.
Matching(name) == { p \in 1..Len(Pats) : is_match(Pats[p].regexp, name) }

Min(S) == CHOOSE n \in S : \A m \in S : n <= m

Named(name) == { k \in 1..Len(RetMaps) : RetMaps[k].filename = name }

\* Map m holds the placement pattern p computes for its file.
PlacedBy(m, p) ==
    LET r == MapEntry(world_path, Pats[p], m.filename)
    IN  r.kind = "Ok" /\ m.x = r.val.x /\ m.y = r.val.y

\* The integer text of capture group g of pattern p on a file name.
CaptureInt(p, name, g) ==
    ParseI32(Unwrap(Unwrap(Captures(Pats[p].regexp, name))[g]))

\* capture * multiplier + offset over the mathematical integers.
Exact(capture, multiplier, offset) ==
    ZAdd(ZMul(ZOfInt(capture), multiplier), ZOfInt(offset))

\* What the loop of lines 132-222 is to build: pattern by pattern from p on,
\* the placements of the entries that pattern matches, in listing order.
RECURSIVE PatternMaps(_)
PatternMaps(p) ==
    IF p > Len(Pats) THEN <<>>
    ELSE LET files == SelectSeq(Listing,
                          LAMBDA e : e.io /\ is_match(Pats[p].regexp, e.name))
         IN  [i \in 1..Len(files) |-> MapEntry(world_path, Pats[p], files[i].name).val]
             \o PatternMaps(p + 1)

Unloaded(ms) == [k \in 1..Len(ms) |-> [ms[k] EXCEPT !.map = None]]

(***************************************************************************)
(* C1                                                                      *)
(***************************************************************************)
\* C1 as claimed: a file name the directory lists contributes at most one
\* WorldMap to the world returned, and that one is placed by the first
\* pattern, in declaration order, whose regex matches it.
C1_FirstMatchOnly ==
    (ReturnedOk /\ HasPatterns) =>
        \A name \in Candidates :
            /\ Cardinality(Named(name)) <= 1
            /\ \A k \in Named(name) :
                  /\ Matching(name) # {}
                  /\ PlacedBy(RetMaps[k], Min(Matching(name)))

\* C1 as amended: every pattern whose regex matches a file name contributes
\* its own WorldMap for it: a name matched by n patterns has n WorldMaps in
\* the world returned, and the maps are, pattern by pattern in declaration
\* order, the placements of the names that pattern matches, in listing order.
C1_EveryMatchingPattern ==
    (ReturnedOk /\ HasPatterns) =>
        /\ \A name \in Candidates :
              Cardinality(Named(name)) = Cardinality(Matching(name))
        /\ Unloaded(RetMaps) = PatternMaps(1)

\* Two patterns have matched one file name and placed it differently, and the
\* world returned holds both placements.
C1_Witness ==
    /\ ReturnedOk /\ HasPatterns
    /\ \E name \in Candidates : \E k, l \in Named(name) :
          /\ k < l
          /\ RetMaps[k].x # RetMaps[l].x
          /\ Cardinality(Matching(name)) = 2

(***************************************************************************)
(* C2                                                                      *)
(***************************************************************************)
\* C2 as claimed: every WorldMap a pattern has placed holds, for a pattern
\* matching its file name, exactly x = c1 * multiplier_x + offset_x and
\* y = c2 * multiplier_y + offset_y, computed over the mathematical integers.
C2_ExactPlacement ==
    (ReturnedOk /\ HasPatterns) =>
        \A k \in 1..Len(RetMaps) :
            \E p \in Matching(RetMaps[k].filename) :
                LET name == RetMaps[k].filename
                    c1 == CaptureInt(p, name, 1)
                    c2 == CaptureInt(p, name, 2)
                IN  /\ c1.ok /\ c2.ok
                    /\ ZOfInt(RetMaps[k].x)
                         = Exact(c1.val, Pats[p].multiplier_x, Pats[p].offset_x)
                    /\ ZOfInt(RetMaps[k].y)
                         = Exact(c2.val, Pats[p].multiplier_y, Pats[p].offset_y)

(***************************************************************************)
(* C3                                                                      *)
(***************************************************************************)
\* C3 as claimed: every WorldMap produced by pattern matching has width None
\* and height None.
C3_NoSize ==
    (ReturnedOk /\ HasPatterns) =>
        \A k \in 1..Len(RetMaps) :
            RetMaps[k].width = None /\ RetMaps[k].height = None

\* C3 as amended: every WorldMap produced by pattern matching has
\* width = Some(multiplier_x) and height = Some(multiplier_y) of the pattern
\* that placed it.
C3_SizeIsMultiplier ==
    (ReturnedOk /\ HasPatterns) =>
        \A k \in 1..Len(RetMaps) :
            \E p \in Matching(RetMaps[k].filename) :
                /\ PlacedBy(RetMaps[k], p)
                /\ RetMaps[k].width = Some(Pats[p].multiplier_x)
                /\ RetMaps[k].height = Some(Pats[p].multiplier_y)

\* A world returned with a map a pattern has placed.
C3_Witness ==
    /\ ReturnedOk /\ HasPatterns
    /\ Len(RetMaps) > 0
    /\ RetMaps[1].width = Some(ZOfInt(100))

(***************************************************************************)
(* C4                                                                      *)
(***************************************************************************)
\* The errors of lines 159-207: a candidate that could not be placed.
CandidateError(e) ==
    /\ e.kind = "ResourceLoadingError"
    /\ Len(e.msg) > 0
    /\ e.msg[1] \in {"Failed to parse pattern from file", "ParseIntError",
                     "Arithmetic Overflow"}

\* The candidates pattern p matches, by position in the listing.
Matched(p) ==
    { i \in 1..Len(Listing) :
        Listing[i].io /\ is_match(Pats[p].regexp, Listing[i].name) }

Placing(p, i) == MapEntry(world_path, Pats[p], Listing[i].name)

\* C4 as claimed: a candidate that fails does not discard the placements of
\* the others: when the call ends with a world or with the failure of a
\* candidate, every placement that succeeds is part of what it returns.
C4_SiblingsKept ==
    (Done /\ HasPatterns
          /\ (ret.kind = "Ok" \/ (ret.kind = "Err" /\ CandidateError(ret.val)))) =>
        \A p \in 1..Len(Pats) : \A i \in Matched(p) :
            Placing(p, i).kind = "Ok" =>
                /\ ret.kind = "Ok"
                /\ \E k \in Named(Listing[i].name) : PlacedBy(RetMaps[k], p)

\* C4 as amended: pattern matching is all-or-nothing.  The first candidate
\* that fails, in pattern order and then listing order, is the error of the
\* whole call, which returns no placement; a world is returned only when
\* every candidate every pattern matches has been placed.
C4_FirstFailureAborts ==
    /\ (ReturnedOk /\ HasPatterns) =>
          \A p \in 1..Len(Pats) : \A i \in Matched(p) : Placing(p, i).kind = "Ok"
    /\ (ReturnedErr /\ CandidateError(ret.val)) =>
          \E p \in 1..Len(Pats) : \E i \in Matched(p) :
              /\ Placing(p, i) = ret
              /\ \A q \in 1..p : \A j \in Matched(q) :
                    (q < p \/ j < i) => Placing(q, j).kind = "Ok"

\* The failure of one candidate is returned although the same pattern has
\* placed another candidate of the listing.
C4_Witness ==
    /\ ReturnedErr /\ CandidateError(ret.val)
    /\ \E p \in 1..Len(Pats) : \E i, j \in Matched(p) :
          /\ Placing(p, i).kind = "Ok"
          /\ Placing(p, j) = ret

(***************************************************************************)
(* C5                                                                      *)
(***************************************************************************)
\* C5 as claimed: a candidate no pattern matches is an error of the call: no
\* world is returned when the directory lists such a candidate.
C5_UnmatchedIsError ==
    (ReturnedOk /\ HasPatterns) =>
        \A name \in Candidates : Matching(name) # {}

\* C5 as amended: a candidate no pattern matches is left out: it has no
\* WorldMap in the world returned, and the call never fails with
\* CapturesNotFound.
C5_UnmatchedIsSkipped ==
    /\ (ReturnedOk /\ HasPatterns) =>
          \A name \in Candidates : Matching(name) = {} => Named(name) = {}
    /\ ReturnedErr => ret.val.kind # "CapturesNotFound"

\* A world is returned, with a placed map, from a directory that lists a
\* candidate no pattern matches.
C5_Witness ==
    /\ ReturnedOk /\ HasPatterns
    /\ Len(RetMaps) > 0
    /\ \E name \in Candidates : Matching(name) = {}

(***************************************************************************)
(* C6                                                                      *)
(***************************************************************************)
\* C6 as claimed: the world returned has source = world_path.
C6_SourceIsWorldPath ==
    ReturnedOk => ret.val.source = world_path

(***************************************************************************)
(* C7                                                                      *)
(***************************************************************************)
\* C7 as claimed: with load_maps = false, the explicit maps of the
\* descriptor are the maps of the world returned, patterns or not.
C7_ExplicitMapsKept ==
    (ReturnedOk /\ ~load_maps /\ Desc.maps # None) =>
        ret.val.maps = Desc.maps

\* C7 as amended: with load_maps = false, a descriptor without patterns has
\* its explicit maps returned as they are; a descriptor with patterns has
\* them replaced by the maps the patterns place.
C7_ExplicitMapsUnlessPatterns ==
    (ReturnedOk /\ ~load_maps) =>
        IF Desc.patterns = None
        THEN ret.val.maps = Desc.maps
        ELSE ret.val.maps = Some(PatternMaps(1))

\* A world without patterns is returned with its two explicit maps.
C7_Witness ==
    /\ ReturnedOk /\ ~load_maps
    /\ Desc.patterns = None
    /\ Desc.maps # None
    /\ Len(RetMaps) = 2
    /\ RetMaps[2].filename = N_CAVE

(***************************************************************************)
(* C8                                                                      *)
(***************************************************************************)
\* C8: parse_world is all-or-nothing.  With load_maps = true a world is
\* returned only with every map loaded, and the error of a map that failed
\* to load is what the call returns; with load_maps = false no map of the
\* world returned is loaded.
C8_AllOrNothing ==
    /\ (ReturnedOk /\ load_maps) =>
          \A k \in 1..Len(RetMaps) : RetMaps[k].map # None
    /\ (ReturnedOk /\ ~load_maps) =>
          \A k \in 1..Len(RetMaps) : RetMaps[k].map = None
    /\ (Done /\ map_err # None) => ret = Err(Unwrap(map_err))
    /\ ReturnedOk => map_err = None

\* A world of two maps is returned with both loaded.
C8_Witness ==
    /\ ReturnedOk /\ load_maps
    /\ Len(RetMaps) = 2
    /\ \A k \in 1..2 : RetMaps[k].map # None

(***************************************************************************)
(* C9                                                                      *)
(***************************************************************************)
\* C9 as claimed: parse_world ends by returning Ok or Err, never by a panic.
C9_NeverPanics ==
    Done => ret.kind \in {"Ok", "Err"}

(***************************************************************************)
(* C10                                                                     *)
(***************************************************************************)
\* The maps of the world at work, and those loaded so far.
WorldMaps ==
    IF world = None \/ Unwrap(world).maps = None THEN <<>>
    ELSE Unwrap(Unwrap(world).maps)

Loaded == { k \in 1..Len(WorldMaps) : WorldMaps[k].map # None }

\* C10: the maps of a world are loaded one at a time through one cache.
\* Never are two maps being loaded at once; every tileset file is read at
\* most once, and exactly once when a loaded map references it; the cache
\* holds one object for each path read; and two loaded maps that reference
\* one tileset path hold the same cached object.
C10_OneCache ==
    /\ Cardinality(active) <= 1
    /\ \A t \in TilesetPaths : reads[t] <= 1 /\ (cache[t] # 0 => reads[t] = 1)
    /\ made = Cardinality({t \in TilesetPaths : cache[t] # 0})
    /\ \A t, u \in TilesetPaths : (cache[t] # 0 /\ cache[t] = cache[u]) => t = u
    /\ \A k \in Loaded :
          LET refs == TilesetRefs(WorldMaps[k].filename)
              handles == Unwrap(WorldMaps[k].map).tilesets
          IN  /\ Len(handles) = Len(refs)
              /\ \A a \in 1..Len(refs) :
                    /\ reads[refs[a]] = 1
                    /\ handles[a] = cache[refs[a]]

\* Two maps that reference one tileset have been loaded, the tileset read
\* while the first was.
C10_Witness ==
    /\ ReturnedOk
    /\ \E k, l \in Loaded :
          /\ k < l
          /\ WorldMaps[k].filename # WorldMaps[l].filename
          /\ Unwrap(WorldMaps[k].map).tilesets[1] = Unwrap(WorldMaps[l].map).tilesets[1]
    /\ made = 2

====
